---- MODULE Spec2Model ----
(***************************************************************************)
(* Model of the document-upload workflow:                                  *)
(*   - the metadata codec (Base16 over UTF-8) of the two Lambda functions, *)
(*   - the upload-complete Processor (doc_upload_processing.py),           *)
(*   - the presigned-upload Issuer (doc_upload_response.py).               *)
(* Python strings are sequences of Unicode code points, byte strings are   *)
(* sequences of numbers in 0..255, dicts are functions whose domain is the *)
(* set of keys.                                                            *)
(***************************************************************************)
EXTENDS Integers, Sequences, FiniteSets, TLC

VARIABLES
    \* codec round trip: position, the mapping, its encoded form as it travels
    \* through the staging bucket, the decoded result
    cpc, cm, cenc, cdec,
    \* Processor: the staging bucket (object key -> staged object or "absent"),
    \* the keys of the destination bucket, the event's records, the index of
    \* the record in hand, the handler's position, its local mdata, the
    \* exception in flight, the temporary directory, the iot-data publish calls
    staging, store, records, ri, ppc, mdata, perr, tmpdir, acks,
    \* history of the records taken up: the object found at the start, the
    \* statement that raised, the result
    hist,
    \* Issuer: the request event, the handler's position, the exception in
    \* flight, the statement that raised first, the locals encoded_metadata
    \* and resp, the iot-data publish calls
    event, ipc, ierr, ifail, encoded_metadata, resp, responses,
    \* checksum conversion: position, the raw digest, its hexadecimal form,
    \* the Base64 form md5_to_b64md5 returns
    md5pc, md5raw, md5hex, md5b64,
    \* process_dir on its own: position, the archive, the partition, the
    \* upload_file calls in the order they were made
    wpc, wzip, wpartition, wuploads,
    \* the client: the command-line arguments, the position of the main
    \* thread, the connection, the confirmed subscriptions, the request it
    \* published, the two events and the result of ReceiveCallbacks, the value
    \* test_client returned, the time spent in wait_for_responses
    cargs, mpc, connected, subs, published, received_response, received_ack,
    success, ret, elapsed,
    \* the values of 'success' in the acknowledgements on_ack_received has
    \* handled, in order (a history, not a field of the program)
    ack_log,
    \* the connection's thread: the messages the broker handed to it, in
    \* order, the position of the callback it runs and the message of that
    \* callback, the HTTP PUT requests it sent
    inbox, cbpc, cbmsg, puts,
    \* the objects uploaded to the staging bucket through a presigned URL, the
    \* messages of the Issuer and of the Processor the broker has routed, the
    \* messages that reached the client from elsewhere
    uploaded, fwd, ndeliv

codecVars == <<cpc, cm, cenc, cdec>>
procVars == <<staging, store, records, ri, ppc, mdata, perr, tmpdir, acks, hist>>
issuerVars == <<event, ipc, ierr, ifail, encoded_metadata, resp, responses>>
md5Vars == <<md5pc, md5raw, md5hex, md5b64>>
walkVars == <<wpc, wzip, wpartition, wuploads>>
clientVars ==
    <<cargs, mpc, connected, subs, published, received_response, received_ack,
      success, ret, elapsed, ack_log, inbox, cbpc, cbmsg, puts, uploaded, fwd,
      ndeliv>>
auxVars == <<md5Vars, walkVars, clientVars>>
vars == <<codecVars, procVars, issuerVars, auxVars>>

(***************************************************************************)
(* Bounds of the model.                                                    *)
(***************************************************************************)
\* longest string drawn as a metadata value in the codec specification
MaxStrLen == 2
\* most records in one S3 event handed to the Processor
MaxBatch == 2

(***************************************************************************)
(* Strings.                                                                *)
(***************************************************************************)
\* a result of a call that may raise: ok = FALSE stands for the exception
Ok(v) == [ok |-> TRUE, val |-> v]
Raised == [ok |-> FALSE, val |-> <<>>]

\* F applied to the value of v, with v evaluated once
With(v, F(_)) == CHOOSE r \in {F(x) : x \in {v}} : TRUE

RECURSIVE Flatten(_)
\* concatenation of a sequence of sequences
Flatten(ss) ==
    With(ss, LAMBDA q : IF q = <<>> THEN <<>> ELSE Head(q) \o Flatten(Tail(q)))

\* str.lower() / bytes.upper() on one code point (ASCII letters only occur)
LowerChar(c) == IF c >= 65 /\ c <= 90 THEN c + 32 ELSE c
UpperChar(c) == IF c >= 97 /\ c <= 122 THEN c - 32 ELSE c
Lower(s) == With(s, LAMBDA x : [i \in 1..Len(x) |-> LowerChar(x[i])])
Upper(s) == With(s, LAMBDA x : [i \in 1..Len(x) |-> UpperChar(x[i])])

\* str.encode('utf-8') of one Unicode scalar value
Utf8EncodeChar(c) ==
    IF c < 128 THEN <<c>>
    ELSE IF c < 2048 THEN <<192 + (c \div 64), 128 + (c % 64)>>
    ELSE IF c < 65536
         THEN <<224 + (c \div 4096), 128 + ((c \div 64) % 64), 128 + (c % 64)>>
    ELSE <<240 + (c \div 262144), 128 + ((c \div 4096) % 64),
           128 + ((c \div 64) % 64), 128 + (c % 64)>>

Utf8Encode(s) ==
    With(s, LAMBDA x : Flatten([i \in 1..Len(x) |-> Utf8EncodeChar(x[i])]))

IsCont(b) == b >= 128 /\ b <= 191

RECURSIVE Utf8Decode(_)
\* bytes.decode('utf-8'), strict: Raised on a truncated, overlong, surrogate
\* or out-of-range sequence
Utf8Decode(bytes) == With(bytes, LAMBDA b :
    IF b = <<>> THEN Ok(<<>>)
    ELSE LET b0 == b[1]
             n == IF b0 < 128 THEN 1
                  ELSE IF b0 >= 194 /\ b0 <= 223 THEN 2
                  ELSE IF b0 >= 224 /\ b0 <= 239 THEN 3
                  ELSE IF b0 >= 240 /\ b0 <= 244 THEN 4
                  ELSE 0
         IN IF n = 0 \/ Len(b) < n \/ (\E i \in 2..n : ~IsCont(b[i]))
            THEN Raised
            ELSE LET cp == CASE n = 1 -> b0
                             [] n = 2 -> (b0 - 192) * 64 + (b[2] - 128)
                             [] n = 3 -> (b0 - 224) * 4096 + (b[2] - 128) * 64
                                         + (b[3] - 128)
                             [] n = 4 -> (b0 - 240) * 262144 + (b[2] - 128) * 4096
                                         + (b[3] - 128) * 64 + (b[4] - 128)
                     valid == CASE n = 1 -> TRUE
                                [] n = 2 -> TRUE
                                [] n = 3 -> cp >= 2048 /\ ~(cp >= 55296 /\ cp <= 57343)
                                [] n = 4 -> cp >= 65536 /\ cp <= 1114111
                 IN With(Utf8Decode(SubSeq(b, n + 1, Len(b))), LAMBDA rest :
                        IF valid /\ rest.ok THEN Ok(<<cp>> \o rest.val)
                        ELSE Raised))

\* one Base16 digit of base64.b16encode: 0-9, A-F
HexDigit(n) == IF n < 10 THEN 48 + n ELSE 55 + n
\* base64.b16encode(bytes).decode('utf-8')
B16Encode(b) ==
    With(b, LAMBDA x :
        Flatten([i \in 1..Len(x) |->
                    <<HexDigit(x[i] \div 16), HexDigit(x[i] % 16)>>]))

IsUpperHex(c) == (c >= 48 /\ c <= 57) \/ (c >= 65 /\ c <= 70)
HexValue(c) == IF c <= 57 THEN c - 48 ELSE c - 55

\* base64.b16decode(s, casefold): upper-cases when casefold, then Raised on a
\* character outside 0-9A-F or on an odd length
B16Decode(s, casefold) ==
    With(IF casefold THEN Upper(s) ELSE s, LAMBDA u :
        IF (\E i \in 1..Len(u) : ~IsUpperHex(u[i])) \/ Len(u) % 2 = 1
        THEN Raised
        ELSE Ok([i \in 1..(Len(u) \div 2) |->
                    16 * HexValue(u[2 * i - 1]) + HexValue(u[2 * i])]))

(***************************************************************************)
(* The metadata codec.                                                     *)
(***************************************************************************)
S2b16lowNotLowered(s) == B16Encode(Utf8Encode(s))
\* s2b16low: Base16 of the UTF-8 bytes, forced to lower case
S2b16low(s) == Lower(B16Encode(Utf8Encode(s)))

\* encode_metadata: every key and value through s2b16low
EncodeMetadata(metadata) ==
    [ek \in {S2b16low(k) : k \in DOMAIN metadata} |->
        S2b16low(metadata[CHOOSE k \in DOMAIN metadata : S2b16low(k) = ek])]

B16low2sNoCasefold(s) ==
    LET raw == B16Decode(s, FALSE)
    IN IF raw.ok THEN Utf8Decode(raw.val) ELSE Raised
\* b16low2s: b16decode(s, casefold=True).decode('utf-8')
B16low2s(s) ==
    LET raw == B16Decode(s, TRUE)
    IN IF raw.ok THEN Utf8Decode(raw.val) ELSE Raised

\* decode_metadata: every key and value through b16low2s; Raised when one of
\* them raises
DecodeMetadata(metadata) ==
    IF \E k \in DOMAIN metadata : ~B16low2s(k).ok \/ ~B16low2s(metadata[k]).ok
    THEN Raised
    ELSE Ok([dk \in {B16low2s(k).val : k \in DOMAIN metadata} |->
                B16low2s(metadata[CHOOSE k \in DOMAIN metadata :
                                      B16low2s(k).val = dk]).val])

\* the staging bucket keeps the names of user metadata in lower case
S3StoreMetadata(metadata) ==
    [sk \in {Lower(k) : k \in DOMAIN metadata} |->
        metadata[CHOOSE k \in DOMAIN metadata : Lower(k) = sk]]


\* the metadata keys 'org-mqtt-topic' and 'requestUuid'
OrgMqttTopicKey == <<111, 114, 103, 45, 109, 113, 116, 116, 45, 116, 111, 112, 105, 99>>
RequestUuidKey == <<114, 101, 113, 117, 101, 115, 116, 85, 117, 105, 100>>

(***************************************************************************)
(* Topics and the keyword swap.                                            *)
(***************************************************************************)
\* TOPIC_REQ_KW, TOPIC_ACK_KW, TOPIC_RESP_KW of the environment: "Req", "Ack",
\* "Resp"
REQ_KW == <<82, 101, 113>>
ACK_KW == <<65, 99, 107>>
RESP_KW == <<82, 101, 115, 112>>

RECURSIVE Replace(_, _, _)
\* str.replace(old, new): every non-overlapping occurrence, left to right
Replace(s, old, new) ==
    IF old = <<>> THEN new \o Flatten([i \in 1..Len(s) |-> <<s[i]>> \o new])
    ELSE IF Len(s) < Len(old) THEN s
    ELSE IF SubSeq(s, 1, Len(old)) = old
         THEN new \o Replace(SubSeq(s, Len(old) + 1, Len(s)), old, new)
    ELSE <<s[1]>> \o Replace(Tail(s), old, new)

\* "b/Req/c", "Req/Req" (the keyword twice), "b/x" (no keyword)
TopicBC == <<98, 47, 82, 101, 113, 47, 99>>
TopicTwice == <<82, 101, 113, 47, 82, 101, 113>>
TopicPlain == <<98, 47, 120>>
\* request identifiers "u1", "u2"
Uuid1 == <<117, 49>>
Uuid2 == <<117, 50>>

(***************************************************************************)
(* The Processor: archives, the extraction directory, process_dir.         *)
(***************************************************************************)
Slash == <<47>>
PathJoinAlwaysSeparator(a, b) == a \o Slash \o b
\* os.path.join(a, b) for a relative b
PathJoin(a, b) == IF a = <<>> THEN b ELSE a \o Slash \o b

\* archives as the set of their entry names; a directory entry ends with "/"
\* "a", "s/b"
ZipAB == {<<97>>, <<115, 47, 98>>}
\* "a", "s/", "s/t/c", "e/" (an empty directory)
ZipDeep == {<<97>>, <<115, 47>>, <<115, 47, 116, 47, 99>>, <<101, 47>>}
ZipEmpty == {}

\* the directories an entry name lies in (and is, for a directory entry)
ParentDirs(e) == {SubSeq(e, 1, j - 1) : j \in {i \in 1..Len(e) : e[i] = 47}}

\* ZipFile.extractall: the files and directories below the extraction root,
\* each by its path relative to the root
ExtractAll(entries) ==
    [files |-> {e \in entries : e[Len(e)] # 47},
     dirs |-> UNION {ParentDirs(e) : e \in entries}]

NoTree == [files |-> {}, dirs |-> {}]

\* os.listdir of the directory cu_path below the extraction root
Listdir(tree, cu_path) ==
    LET pre == IF cu_path = <<>> THEN <<>> ELSE cu_path \o Slash
        n == Len(pre)
    IN {SubSeq(p, n + 1, Len(p)) :
            p \in {q \in tree.files \cup tree.dirs :
                      /\ Len(q) > n
                      /\ SubSeq(q, 1, n) = pre
                      /\ \A i \in (n + 1)..Len(q) : q[i] # 47}}

\* process_dir without the recursion into sub-directories
ProcessDirNoRecursion(tree, cu_path, partition_path) ==
    LET keys == {partition_path \o Slash \o PathJoin(cu_path, doc) :
                    doc \in {d \in Listdir(tree, cu_path) :
                                PathJoin(cu_path, d) \in tree.files}}
    IN {s \in [1..Cardinality(keys) -> keys] :
            {s[i] : i \in DOMAIN s} = keys}

RECURSIVE ProcessDir(_, _, _), ProcessDocs(_, _, _, _)
\* process_dir: the sequences of destination keys it may upload, one sequence
\* for each order in which os.listdir may list the directories
ProcessDir(tree, cu_path, partition_path) ==
    ProcessDocs(tree, cu_path, partition_path, Listdir(tree, cu_path))
\* the loop over the listed docs, taken in any order
ProcessDocs(tree, cu_path, partition_path, docs) ==
    IF docs = {} THEN {<<>>}
    ELSE UNION {
        LET doc_path == PathJoin(cu_path, doc)
            first == IF doc_path \in tree.files
                     THEN {<<partition_path \o Slash \o PathJoin(cu_path, doc)>>}
                     ELSE IF doc_path \in tree.dirs
                     THEN ProcessDir(tree, doc_path, partition_path)
                     ELSE {<<>>}
        IN {f \o r : f \in first,
                     r \in ProcessDocs(tree, cu_path, partition_path, docs \ {doc})}
        : doc \in docs}

Range(f) == {f[i] : i \in DOMAIN f}

(***************************************************************************)
(* The Processor: staged objects.                                          *)
(***************************************************************************)
NotAZip == {<<>>}
NotFound == <<78, 111, 116, 70, 111, 117, 110, 100>>

ObjKeys == {"k1", "k2"}
\* the keys uuid4 may give to an upload (get_presigned_url)
FreshKeys == {"o1", "o2"}
ObjNames == {"good1", "good2", "twice", "noUuid", "noTopic", "badHex", "badUtf8", "notZip"}

\* the staged objects: the user metadata head_object returns and the body
ObjectOf(name) ==
    CASE name = "good1" ->
           [meta |-> EncodeMetadata((OrgMqttTopicKey :> TopicBC) @@ (RequestUuidKey :> Uuid1)),
            body |-> ZipAB]
      [] name = "good2" ->
           [meta |-> EncodeMetadata((OrgMqttTopicKey :> TopicPlain) @@ (RequestUuidKey :> Uuid2)),
            body |-> ZipDeep]
      [] name = "twice" ->
           [meta |-> EncodeMetadata((OrgMqttTopicKey :> TopicTwice) @@ (RequestUuidKey :> Uuid1)),
            body |-> ZipEmpty]
      [] name = "noUuid" ->
           [meta |-> EncodeMetadata((OrgMqttTopicKey :> TopicBC)), body |-> ZipAB]
      [] name = "noTopic" ->
           [meta |-> EncodeMetadata((RequestUuidKey :> Uuid2)), body |-> ZipAB]
      \* a metadata name that is no Base16: "zz"
      [] name = "badHex" ->
           [meta |-> (<<122, 122>> :> S2b16low(Uuid1)), body |-> ZipAB]
      \* a metadata value that is Base16 of the byte ff, which is no UTF-8
      [] name = "badUtf8" ->
           [meta |-> (S2b16low(OrgMqttTopicKey) :> <<102, 102>>), body |-> ZipAB]
      [] name = "notZip" ->
           [meta |-> EncodeMetadata((OrgMqttTopicKey :> TopicBC) @@ (RequestUuidKey :> Uuid2)),
            body |-> NotAZip]
      \* an object a client uploaded, staged under its key
      [] name \in FreshKeys -> uploaded[name]

RECURSIVE SeqsUpTo(_, _)
\* the non-empty sequences over S of at most n elements
SeqsUpTo(S, n) ==
    IF n = 0 THEN {}
    ELSE {<<x>> : x \in S} \cup {Append(q, x) : q \in SeqsUpTo(S, n - 1), x \in S}

Md5Idle ==
    /\ md5pc = "idle"
    /\ md5raw = <<>>
    /\ md5hex = <<>>
    /\ md5b64 = Raised

WalkIdle ==
    /\ wpc = "idle"
    /\ wzip = {}
    /\ wpartition = <<>>
    /\ wuploads = <<>>

NoObject == [meta |-> <<>>, body |-> {}]
NoMessage == [kind |-> "none", json |-> FALSE, topic |-> <<>>, payload |-> <<>>]

ClientIdle ==
    /\ cargs = [exists |-> FALSE, bad_md5 |-> FALSE, bad_payload |-> FALSE,
                file |-> "none"]
    /\ mpc = "idle"
    /\ connected = FALSE
    /\ subs = {}
    /\ published = <<>>
    /\ received_response = FALSE
    /\ received_ack = FALSE
    /\ success = "False"
    /\ ack_log = <<>>
    /\ ret = "unset"
    /\ elapsed = 0
    /\ inbox = <<>>
    /\ cbpc = "idle"
    /\ cbmsg = NoMessage
    /\ puts = <<>>
    /\ uploaded = [k \in FreshKeys |-> NoObject]
    /\ fwd = [resp |-> 0, ack |-> 0]
    /\ ndeliv = 0

AuxIdle == Md5Idle /\ WalkIdle /\ ClientIdle

CodecIdle ==
    /\ cpc = "idle"
    /\ cm = <<>>
    /\ cenc = <<>>
    /\ cdec = Raised

NoResp == [md5e |-> <<>>, exp |-> 0, url |-> <<>>]

IssuerIdle ==
    /\ event = <<>>
    /\ ipc = "idle"
    /\ ierr = "none"
    /\ ifail = "none"
    /\ encoded_metadata = <<>>
    /\ resp = NoResp
    /\ responses = <<>>

\* no invocation of the Processor yet
ProcHandlerIdle ==
    /\ store = {}
    /\ records = <<>>
    /\ ri = 1
    /\ ppc = "idle"
    /\ mdata = <<>>
    /\ perr = "none"
    /\ tmpdir = [file |-> {}, content |-> NoTree]
    /\ acks = <<>>
    /\ hist = <<>>

ProcIdle ==
    /\ staging = [k \in ObjKeys |-> "absent"]
    /\ ProcHandlerIdle

(***************************************************************************)
(* The Processor: lambda_handler of doc_upload_processing.py, one action   *)
(* for each call it makes; ppc is the statement the handler is at.         *)
(***************************************************************************)
InitProc ==
    /\ staging \in [ObjKeys -> ObjNames \cup {"absent"}]
    /\ store = {}
    /\ records \in SeqsUpTo(ObjKeys, MaxBatch)
    /\ ri = 1
    /\ ppc = "loop"
    /\ mdata = <<>>
    /\ perr = "none"
    /\ tmpdir = [file |-> {}, content |-> NoTree]
    /\ acks = <<>>
    /\ hist = <<>>
    /\ CodecIdle
    /\ IssuerIdle
    /\ AuxIdle

object_key == records[ri]
EmptyTmp == [file |-> {}, content |-> NoTree]

\* an exception of the given kind leaves the try block of the record in hand
RaiseInRecord(kind) ==
    /\ perr' = kind
    /\ ppc' = "except"
    /\ tmpdir' = EmptyTmp
    /\ hist' = [hist EXCEPT ![ri].stage = ppc]

\* the publish call of iot_client, as issued while handling record ri
AckCall(topic, is_success, requestUuid, delivered) ==
    [rec |-> ri, topic |-> topic, success |-> is_success,
     requestUuid |-> requestUuid, delivered |-> delivered]

\* for record in event['Records']: the next record, or the end of the handler
ProcLoopNext ==
    /\ ppc = "loop"
    /\ ri <= Len(records)
    /\ ppc' = "head"
    /\ hist' = Append(hist, [obj |-> staging[object_key], stage |-> "none",
                             result |-> "running"])
    /\ UNCHANGED <<staging, store, records, ri, mdata, perr, tmpdir, acks, codecVars, issuerVars, auxVars>>

ProcLoopEnd ==
    /\ ppc = "loop"
    /\ ri > Len(records)
    /\ ppc' = "returned"
    /\ UNCHANGED <<staging, store, records, ri, mdata, perr, tmpdir, acks, hist, codecVars, issuerVars, auxVars>>

\* head_object raises ClientError (no such object, or a failed call), which
\* the inner try turns into InvalidMetadata; mdata keeps its value
ProcHeadFails ==
    /\ ppc = "head"
    /\ RaiseInRecord("InvalidMetadata")
    /\ UNCHANGED <<staging, store, records, ri, mdata, acks, codecVars, issuerVars, auxVars>>

\* head_object returns and decode_metadata raises (binascii.Error or
\* UnicodeDecodeError, no ClientError); mdata keeps its value
ProcDecodeFails ==
    /\ ppc = "head"
    /\ staging[object_key] # "absent"
    /\ ~DecodeMetadata(ObjectOf(staging[object_key]).meta).ok
    /\ RaiseInRecord("ValueError")
    /\ UNCHANGED <<staging, store, records, ri, mdata, acks, codecVars, issuerVars, auxVars>>

ProcHeadOk ==
    /\ ppc = "head"
    /\ staging[object_key] # "absent"
    /\ DecodeMetadata(ObjectOf(staging[object_key]).meta).ok
    /\ mdata' = DecodeMetadata(ObjectOf(staging[object_key]).meta).val
    /\ ppc' = "check"
    /\ UNCHANGED <<staging, store, records, ri, perr, tmpdir, acks, hist, codecVars, issuerVars, auxVars>>

\* check_metadata
CheckMetadata(md) == {OrgMqttTopicKey, RequestUuidKey} \subseteq DOMAIN md

ProcCheckFails ==
    /\ ppc = "check"
    /\ ~CheckMetadata(mdata)
    /\ RaiseInRecord("InvalidMetadata")
    /\ UNCHANGED <<staging, store, records, ri, mdata, acks, codecVars, issuerVars, auxVars>>

ProcCheckOk ==
    /\ ppc = "check"
    /\ CheckMetadata(mdata)
    /\ ppc' = "download"
    /\ UNCHANGED <<staging, store, records, ri, mdata, perr, tmpdir, acks, hist, codecVars, issuerVars, auxVars>>

\* download_fileobj into the temporary directory
ProcDownloadFails ==
    /\ ppc = "download"
    /\ RaiseInRecord("ClientError")
    /\ UNCHANGED <<staging, store, records, ri, mdata, acks, codecVars, issuerVars, auxVars>>

ProcDownloadOk ==
    /\ ppc = "download"
    /\ staging[object_key] # "absent"
    /\ tmpdir' = [tmpdir EXCEPT !.file = ObjectOf(staging[object_key]).body]
    /\ ppc' = "extract"
    /\ UNCHANGED <<staging, store, records, ri, mdata, perr, acks, hist, codecVars, issuerVars, auxVars>>

\* ZipFile(...) on a file that is no archive
ProcExtractFails ==
    /\ ppc = "extract"
    /\ tmpdir.file = NotAZip
    /\ RaiseInRecord("BadZipFile")
    /\ UNCHANGED <<staging, store, records, ri, mdata, acks, codecVars, issuerVars, auxVars>>

ProcExtractOk ==
    /\ ppc = "extract"
    /\ tmpdir.file # NotAZip
    /\ tmpdir' = [tmpdir EXCEPT !.content = ExtractAll(tmpdir.file)]
    /\ ppc' = "process_dir"
    /\ UNCHANGED <<staging, store, records, ri, mdata, perr, acks, hist, codecVars, issuerVars, auxVars>>

\* process_dir uploads every file; the temporary directory is removed
ProcProcessDirOk ==
    /\ ppc = "process_dir"
    /\ \E run \in ProcessDir(tmpdir.content, <<>>, mdata[OrgMqttTopicKey]) :
          store' = store \cup Range(run)
    /\ tmpdir' = EmptyTmp
    /\ ppc' = "publish"
    /\ UNCHANGED <<staging, records, ri, mdata, perr, acks, hist, codecVars, issuerVars, auxVars>>

\* an upload_file call of process_dir raises after n uploads went through
ProcProcessDirFails ==
    /\ ppc = "process_dir"
    /\ \E run \in ProcessDir(tmpdir.content, <<>>, mdata[OrgMqttTopicKey]) :
          \E n \in 0..(Len(run) - 1) :
              store' = store \cup Range(SubSeq(run, 1, n))
    /\ RaiseInRecord("S3UploadFailedError")
    /\ UNCHANGED <<staging, records, ri, mdata, acks, codecVars, issuerVars, auxVars>>

\* the success publish with the source object deleted before it
ProcPublishOkSourceDeletedFirst ==
    /\ ppc = "publish"
    /\ staging' = [staging EXCEPT ![object_key] = "absent"]
    /\ acks' = Append(acks, AckCall(Replace(mdata[OrgMqttTopicKey], REQ_KW, ACK_KW),
                                    TRUE, mdata[RequestUuidKey], TRUE))
    /\ ppc' = "delete"
    /\ UNCHANGED <<store, records, ri, mdata, perr, tmpdir, hist, codecVars, issuerVars, auxVars>>

\* the success acknowledgement
ProcPublishOk ==
    /\ ppc = "publish"
    /\ acks' = Append(acks, AckCall(Replace(mdata[OrgMqttTopicKey], REQ_KW, ACK_KW),
                                    TRUE, mdata[RequestUuidKey], TRUE))
    /\ ppc' = "delete"
    /\ UNCHANGED <<staging, store, records, ri, mdata, perr, tmpdir, hist, codecVars, issuerVars, auxVars>>

ProcPublishFailsSourceDeleted ==
    /\ ppc = "publish"
    /\ acks' = Append(acks, AckCall(Replace(mdata[OrgMqttTopicKey], REQ_KW, ACK_KW),
                                    TRUE, mdata[RequestUuidKey], FALSE))
    /\ staging' = [staging EXCEPT ![object_key] = "absent"]
    /\ RaiseInRecord("ClientError")
    /\ UNCHANGED <<store, records, ri, mdata, codecVars, issuerVars, auxVars>>

ProcPublishFails ==
    /\ ppc = "publish"
    /\ acks' = Append(acks, AckCall(Replace(mdata[OrgMqttTopicKey], REQ_KW, ACK_KW),
                                    TRUE, mdata[RequestUuidKey], FALSE))
    /\ RaiseInRecord("ClientError")
    /\ UNCHANGED <<staging, store, records, ri, mdata, codecVars, issuerVars, auxVars>>

\* delete_object of the source, the last statement of the try block
ProcDeleteOk ==
    /\ ppc = "delete"
    /\ staging' = [staging EXCEPT ![object_key] = "absent"]
    /\ hist' = [hist EXCEPT ![ri].result = "ok"]
    /\ ri' = ri + 1
    /\ ppc' = "loop"
    /\ UNCHANGED <<store, records, mdata, perr, tmpdir, acks, codecVars, issuerVars, auxVars>>

ProcDeleteFails ==
    /\ ppc = "delete"
    /\ RaiseInRecord("ClientError")
    /\ UNCHANGED <<staging, store, records, ri, mdata, acks, codecVars, issuerVars, auxVars>>

ProcExceptPublishRequestTopic ==
    /\ ppc = "except"
    /\ OrgMqttTopicKey \in DOMAIN mdata
    /\ \E delivered \in BOOLEAN :
          /\ acks' = Append(acks,
                 AckCall(mdata[OrgMqttTopicKey], FALSE,
                         IF RequestUuidKey \in DOMAIN mdata
                         THEN mdata[RequestUuidKey] ELSE NotFound,
                         delivered))
          /\ perr' = IF delivered THEN perr ELSE "ClientError"
    /\ ppc' = "raised"
    /\ hist' = [hist EXCEPT ![ri].result = "failed"]
    /\ UNCHANGED <<staging, store, records, ri, mdata, tmpdir, codecVars, issuerVars, auxVars>>

\* except Exception: the failure acknowledgement when mdata has the topic,
\* then raise
ProcExceptPublish ==
    /\ ppc = "except"
    /\ OrgMqttTopicKey \in DOMAIN mdata
    /\ \E delivered \in BOOLEAN :
          /\ acks' = Append(acks,
                 AckCall(Replace(mdata[OrgMqttTopicKey], REQ_KW, ACK_KW), FALSE,
                         IF RequestUuidKey \in DOMAIN mdata
                         THEN mdata[RequestUuidKey] ELSE NotFound,
                         delivered))
          /\ perr' = IF delivered THEN perr ELSE "ClientError"
    /\ ppc' = "raised"
    /\ hist' = [hist EXCEPT ![ri].result = "failed"]
    /\ UNCHANGED <<staging, store, records, ri, mdata, tmpdir, codecVars, issuerVars, auxVars>>

ProcExceptNoTopic ==
    /\ ppc = "except"
    /\ OrgMqttTopicKey \notin DOMAIN mdata
    /\ ppc' = "raised"
    /\ hist' = [hist EXCEPT ![ri].result = "failed"]
    /\ UNCHANGED <<staging, store, records, ri, mdata, perr, tmpdir, acks, codecVars, issuerVars, auxVars>>

NextProc ==
    \/ ProcLoopNext \/ ProcLoopEnd
    \/ ProcHeadFails \/ ProcDecodeFails \/ ProcHeadOk
    \/ ProcCheckFails \/ ProcCheckOk
    \/ ProcDownloadFails \/ ProcDownloadOk
    \/ ProcExtractFails \/ ProcExtractOk
    \/ ProcProcessDirOk \/ ProcProcessDirFails
    \/ ProcPublishOk \/ ProcPublishFails
    \/ ProcDeleteOk \/ ProcDeleteFails
    \/ ProcExceptPublish \/ ProcExceptNoTopic

SpecProc == InitProc /\ [][NextProc]_vars

(***************************************************************************)
(* Properties of the Processor.                                            *)
(***************************************************************************)
\* the publish calls issued while record i was handled
AcksOf(i) == SelectSeq(acks, LAMBDA a : a.rec = i)
\* the metadata in clear of the object record i found in staging
StagedMetadata(i) == DecodeMetadata(ObjectOf(hist[i].obj).meta)
\* the regular files of the archive record i found in staging
StagedFiles(i) == {e \in ObjectOf(hist[i].obj).body : e[Len(e)] # 47}
\* the exception the statement at a position raises
RaisedAt(stage) ==
    CASE stage = "head" -> {"InvalidMetadata", "ValueError"}
      [] stage = "check" -> {"InvalidMetadata"}
      [] stage = "download" -> {"ClientError"}
      [] stage = "extract" -> {"BadZipFile"}
      [] stage = "process_dir" -> {"S3UploadFailedError"}
      [] OTHER -> {"ClientError"}

C3_SiblingsProcessed ==
    ppc \in {"returned", "raised"} => Len(hist) = Len(records)

\* C4: no two acknowledgements are published for one request: the calls made
\* for a record deliver at most one message.
C4_OneAckPerRequest ==
    \A i \in DOMAIN acks : \A j \in DOMAIN acks :
        (i < j /\ acks[i].rec = acks[j].rec
               /\ acks[i].delivered /\ acks[j].delivered)
            => acks[i].requestUuid # acks[j].requestUuid

\* C5: a record, first or later, whose metadata cannot be fetched or decoded,
\* or whose metadata has no org-mqtt-topic, gets no publish call at all.
C5_NoAckWithoutTopic ==
    \A i \in DOMAIN hist :
        (/\ hist[i].result = "failed"
         /\ \/ hist[i].stage = "head"
            \/ /\ hist[i].stage = "check"
               /\ OrgMqttTopicKey \notin DOMAIN StagedMetadata(i).val)
            => AcksOf(i) = <<>>

\* C6: a record that fails after its metadata was decoded with org-mqtt-topic
\* in it (requestUuid missing, download, extraction or upload error) gets the
\* publish call {success: false, requestUuid or "NotFound"} on its own topic
\* with the keyword swapped, and the handler then raises: the error of the
\* record when the call returned.
C6_FailureAck ==
    \A i \in DOMAIN hist :
        (/\ hist[i].result = "failed"
         /\ hist[i].stage \in {"check", "download", "extract", "process_dir"}
         /\ OrgMqttTopicKey \in DOMAIN StagedMetadata(i).val)
            => LET md == StagedMetadata(i).val
                   calls == AcksOf(i)
               IN /\ Len(calls) = 1
                  /\ calls[1].topic = Replace(md[OrgMqttTopicKey], REQ_KW, ACK_KW)
                  /\ calls[1].success = FALSE
                  /\ calls[1].requestUuid =
                         (IF RequestUuidKey \in DOMAIN md
                          THEN md[RequestUuidKey] ELSE NotFound)
                  /\ ppc = "raised"
                  /\ calls[1].delivered => perr \in RaisedAt(hist[i].stage)

\* the object without requestUuid, staged with topic "b/Req/c", failed the
\* check: {success: false, requestUuid: "NotFound"} was delivered on "b/Ack/c"
C6_Witness ==
    /\ Len(hist) >= 1
    /\ hist[1].obj = "noUuid"
    /\ hist[1].result = "failed"
    /\ Len(acks) = 1
    /\ acks[1] = [rec |-> 1, topic |-> <<98, 47, 65, 99, 107, 47, 99>>,
                  success |-> FALSE, requestUuid |-> NotFound, delivered |-> TRUE]
    /\ perr = "InvalidMetadata"
    /\ ppc = "raised"

\* the statement of the try block that precedes the statement at a position
StageBefore(stage) ==
    CASE stage = "check" -> "head"
      [] stage = "download" -> "check"
      [] stage = "extract" -> "download"
      [] stage = "process_dir" -> "extract"
      [] stage = "publish" -> "process_dir"
      [] stage = "delete" -> "publish"
      [] OTHER -> "loop"

\* C16 as stated: whenever a success acknowledgement is published for a
\* record, that record's source object has already been deleted from staging
C16_SourceDeletedBeforeAck ==
    \A n \in DOMAIN acks :
        (acks[n].success /\ acks[n].delivered)
            => staging[records[acks[n].rec]] = "absent"

\* C16 amended: a record passes through metadata fetch, validation, download,
\* extraction, redistribution, the success publish and then the deletion of
\* the source, in that order: the success acknowledgement is issued with every
\* file redistributed and the source still staged, and the source is deleted
\* only with that acknowledgement already delivered
C16_AckBeforeSourceDeleted ==
    [][/\ (ppc' # ppc /\ ppc' \in {"check", "download", "extract",
                                    "process_dir", "publish", "delete"})
            => ppc = StageBefore(ppc')
       /\ (Len(acks') > Len(acks) /\ acks'[Len(acks')].success)
            => /\ ppc = "publish"
               /\ staging' = staging
               /\ staging[object_key] = hist[ri].obj
               /\ \A f \in StagedFiles(ri) :
                      (mdata[OrgMqttTopicKey] \o Slash \o f) \in store
       /\ staging' # staging
            => /\ ppc = "delete"
               /\ staging' = [staging EXCEPT ![object_key] = "absent"]
               /\ acks # <<>>
               /\ acks[Len(acks)] =
                      AckCall(Replace(mdata[OrgMqttTopicKey], REQ_KW, ACK_KW),
                              TRUE, mdata[RequestUuidKey], TRUE)
               /\ hist'[ri].result = "ok"
      ]_vars

\* the success acknowledgement of the first record is delivered and the
\* archive it was made from is still in staging, about to be deleted
C16_Witness ==
    /\ ppc = "delete"
    /\ ri = 1
    /\ Len(acks) = 1
    /\ acks[1].success
    /\ acks[1].delivered
    /\ staging[records[1]] = "good1"
    /\ <<98, 47, 82, 101, 113, 47, 99, 47, 97>> \in store

\* C18: when fetching the staged object's metadata fails or the fetched
\* metadata is malformed or incomplete, the error the Processor raises for the
\* record is of kind InvalidMetadata
C18_MetadataFailureKind ==
    (ppc = "except" /\ hist[ri].stage \in {"head", "check"})
        => perr = "InvalidMetadata"

\* C7: the source object is deleted only after validation, download,
\* extraction, every upload and the success publish went through; a record
\* that failed before its delete call still has in staging the object it
\* started with.
C7_SourcePreserved ==
    \A i \in DOMAIN hist :
        /\ (hist[i].result = "failed" /\ hist[i].stage # "delete")
               => staging[records[i]] = hist[i].obj
        /\ staging[records[i]] # hist[i].obj
               => /\ StagedMetadata(i).ok
                  /\ CheckMetadata(StagedMetadata(i).val)
                  /\ \A f \in StagedFiles(i) :
                        (StagedMetadata(i).val[OrgMqttTopicKey] \o Slash \o f) \in store
                  /\ \E n \in DOMAIN acks :
                        acks[n].rec = i /\ acks[n].success /\ acks[n].delivered

\* a record whose uploads went through and whose success publish raised: the
\* failure acknowledgement is out and the archive is still staged
C7_Witness ==
    /\ Len(hist) >= 1
    /\ hist[1].obj = "good1"
    /\ hist[1].result = "failed"
    /\ hist[1].stage = "publish"
    /\ staging[records[1]] = "good1"
    /\ Len(acks) = 2
    /\ acks[2].success = FALSE /\ acks[2].delivered

(***************************************************************************)
(* The Issuer: doc_upload_response.py.                                     *)
(***************************************************************************)
\* "application/zip", and the header names of make_headers
CONTENT_TYPE == <<97, 112, 112, 108, 105, 99, 97, 116, 105, 111, 110, 47, 122, 105, 112>>
ContentTypeHeader == <<99, 111, 110, 116, 101, 110, 116, 45, 116, 121, 112, 101>>
ContentMd5Header == <<99, 111, 110, 116, 101, 110, 116, 45, 109, 100, 53>>
XAmzMetaPrefix == <<120, 45, 97, 109, 122, 45, 109, 101, 116, 97, 45>>
\* expire, the default lifetime of the presigned URL in seconds
Expire == 900

\* B64Char with the URL-safe alphabet (- and _ for 62 and 63), which
\* base64.b64encode does not use
B64CharUrlSafe(n) ==
    IF n < 26 THEN 65 + n
    ELSE IF n < 52 THEN 71 + n
    ELSE IF n < 62 THEN n - 4
    ELSE IF n = 62 THEN 45 ELSE 95

\* one character of the Base64 alphabet: A-Z, a-z, 0-9, +, /
B64Char(n) ==
    IF n < 26 THEN 65 + n
    ELSE IF n < 52 THEN 71 + n
    ELSE IF n < 62 THEN n - 4
    ELSE IF n = 62 THEN 43 ELSE 47

RECURSIVE B64Encode(_)
\* base64.b64encode(bytes).decode(): three bytes to four characters, '=' padded
B64Encode(bytes) == With(bytes, LAMBDA b :
    IF b = <<>> THEN <<>>
    ELSE IF Len(b) = 1
         THEN <<B64Char(b[1] \div 4), B64Char((b[1] % 4) * 16), 61, 61>>
    ELSE IF Len(b) = 2
         THEN <<B64Char(b[1] \div 4), B64Char((b[1] % 4) * 16 + (b[2] \div 16)),
                B64Char((b[2] % 16) * 4), 61>>
    ELSE <<B64Char(b[1] \div 4), B64Char((b[1] % 4) * 16 + (b[2] \div 16)),
           B64Char((b[2] % 16) * 4 + (b[3] \div 64)), B64Char(b[3] % 64)>>
         \o B64Encode(SubSeq(b, 4, Len(b))))

\* binascii.unhexlify of a str: hex digits of either case, an even number
Unhexlify(s) == B16Decode(s, TRUE)

\* md5_to_b64md5: Raised when unhexlify raises binascii.Error
Md5ToB64md5(md5) ==
    LET raw == Unhexlify(md5)
    IN IF raw.ok THEN Ok(B64Encode(raw.val)) ELSE Raised

\* is_payload_ok
IsPayloadOk(payload) == {"topic", "requestUuid", "md5"} \ DOMAIN payload = {}

\* make_metadata
MakeMetadata(event_dict) ==
    (OrgMqttTopicKey :> event_dict["topic"]) @@ (RequestUuidKey :> event_dict["requestUuid"])

MakeHeadersBareNames(metadata, content_type, md5_encoded) ==
    [h \in {ContentTypeHeader, ContentMd5Header} \cup DOMAIN metadata |->
        IF h = ContentTypeHeader THEN content_type
        ELSE IF h = ContentMd5Header THEN md5_encoded
        ELSE metadata[h]]
\* make_headers
MakeHeaders(metadata, content_type, md5_encoded) ==
    [h \in {ContentTypeHeader, ContentMd5Header}
            \cup {XAmzMetaPrefix \o k : k \in DOMAIN metadata} |->
        IF h = ContentTypeHeader THEN content_type
        ELSE IF h = ContentMd5Header THEN md5_encoded
        ELSE metadata[CHOOSE k \in DOMAIN metadata : XAmzMetaPrefix \o k = h]]

\* the URL generate_presigned_url returns: a non-empty string that depends on
\* the method and the signed parameters
PresignedUrl(key, metadata, content_type, md5e) ==
    <<"put_object", "STG_BUCKET", key, content_type, metadata, md5e>>

IssuerReplyTopicToAck(ev) == Replace(ev["topic"], REQ_KW, ACK_KW)
\* event['topic'].replace(REQ_KW, RESP_KW)
IssuerReplyTopic(ev) == Replace(ev["topic"], REQ_KW, RESP_KW)

IssuerNegativePayloadKeepsExpiration(ev) ==
    [requestUuid |-> IF "requestUuid" \in DOMAIN ev THEN ev["requestUuid"] ELSE <<>>,
     url |-> <<>>, expiration |-> Expire, headers |-> <<>>]
\* the payload of the except block
IssuerNegativePayload(ev) ==
    [requestUuid |-> IF "requestUuid" \in DOMAIN ev THEN ev["requestUuid"] ELSE <<>>,
     url |-> <<>>, expiration |-> 0, headers |-> <<>>]

\* checksums: "d41d", "D41D8c" (valid), "xyz1" (no hex), "abc" (odd length)
Md5s == {<<100, 52, 49, 100>>, <<68, 52, 49, 68, 56, 99>>,
         <<120, 121, 122, 49>>, <<97, 98, 99>>}
\* the clock of time.time(), in seconds
Clock == {1000, 2000}
\* the object keys uuid4 may draw

\* the request events: each of topic, requestUuid and md5 present or absent
Events ==
    UNION {[ks -> {TopicBC, TopicPlain, Uuid1, Uuid2} \cup Md5s] :
               ks \in SUBSET {"topic", "requestUuid", "md5"}}

InitIssuer ==
    /\ event \in {ev \in Events :
                     /\ "topic" \in DOMAIN ev => ev["topic"] \in {TopicBC, TopicPlain}
                     /\ "requestUuid" \in DOMAIN ev => ev["requestUuid"] \in {Uuid1, Uuid2}
                     /\ "md5" \in DOMAIN ev => ev["md5"] \in Md5s}
    /\ ipc = "start"
    /\ ierr = "none"
    /\ ifail = "none"
    /\ encoded_metadata = <<>>
    /\ resp = NoResp
    /\ responses = <<>>
    /\ CodecIdle
    /\ ProcIdle
    /\ AuxIdle

\* an exception of the given kind leaves the try block
RaiseInIssuer(kind) ==
    /\ ierr' = kind
    /\ ifail' = ipc
    /\ ipc' = "except"

\* is_payload_ok fails: raise AttributeError("Non compliant payload")
IssuerPayloadBad ==
    /\ ipc = "start"
    /\ ~IsPayloadOk(event)
    /\ RaiseInIssuer("AttributeError")
    /\ UNCHANGED <<event, encoded_metadata, resp, responses, codecVars, procVars, auxVars>>

\* make_metadata and encode_metadata
IssuerPayloadOk ==
    /\ ipc = "start"
    /\ IsPayloadOk(event)
    /\ encoded_metadata' = EncodeMetadata(MakeMetadata(event))
    /\ ipc' = "sign"
    /\ UNCHANGED <<event, ierr, ifail, resp, responses, codecVars, procVars, auxVars>>

\* get_presigned_url: md5_to_b64md5 raises binascii.Error
IssuerMd5Bad ==
    /\ ipc = "sign"
    /\ ~Md5ToB64md5(event["md5"]).ok
    /\ RaiseInIssuer("binascii.Error")
    /\ UNCHANGED <<event, encoded_metadata, resp, responses, codecVars, procVars, auxVars>>

\* a signing failure that leaves the handler without the except block
IssuerSignFailsNoPublish ==
    /\ ipc = "sign"
    /\ Md5ToB64md5(event["md5"]).ok
    /\ ierr' = "ClientError"
    /\ ifail' = ipc
    /\ ipc' = "raised"
    /\ UNCHANGED <<event, encoded_metadata, resp, responses, codecVars, procVars, auxVars>>

\* get_presigned_url: generate_presigned_url raises ClientError
IssuerSignFails ==
    /\ ipc = "sign"
    /\ Md5ToB64md5(event["md5"]).ok
    /\ RaiseInIssuer("ClientError")
    /\ UNCHANGED <<event, encoded_metadata, resp, responses, codecVars, procVars, auxVars>>

IssuerSignOk ==
    /\ ipc = "sign"
    /\ Md5ToB64md5(event["md5"]).ok
    /\ \E now \in Clock : \E key \in FreshKeys :
          LET md5e == Md5ToB64md5(event["md5"]).val
          IN resp' = [md5e |-> md5e,
                      exp |-> (now + Expire) * 1000,
                      url |-> PresignedUrl(key, encoded_metadata, CONTENT_TYPE, md5e)]
    /\ ipc' = "publish"
    /\ UNCHANGED <<event, ierr, ifail, encoded_metadata, responses, codecVars, procVars, auxVars>>

\* the payload of the try block, with make_headers
IssuerPositivePayload ==
    [requestUuid |-> event["requestUuid"],
     url |-> resp.url,
     expiration |-> resp.exp,
     headers |-> MakeHeaders(encoded_metadata, CONTENT_TYPE, resp.md5e)]

\* a publish that hands the message over and still ends in the except block
IssuerPublishOkThenExcept ==
    /\ ipc = "publish"
    /\ responses' = Append(responses, [topic |-> IssuerReplyTopic(event),
                                       payload |-> IssuerPositivePayload,
                                       delivered |-> TRUE])
    /\ RaiseInIssuer("ClientError")
    /\ UNCHANGED <<event, encoded_metadata, resp, codecVars, procVars, auxVars>>

IssuerPublishOk ==
    /\ ipc = "publish"
    /\ responses' = Append(responses, [topic |-> IssuerReplyTopic(event),
                                       payload |-> IssuerPositivePayload,
                                       delivered |-> TRUE])
    /\ ipc' = "returned"
    /\ UNCHANGED <<event, ierr, ifail, encoded_metadata, resp, codecVars, procVars, auxVars>>

IssuerPublishFails ==
    /\ ipc = "publish"
    /\ responses' = Append(responses, [topic |-> IssuerReplyTopic(event),
                                       payload |-> IssuerPositivePayload,
                                       delivered |-> FALSE])
    /\ RaiseInIssuer("ClientError")
    /\ UNCHANGED <<event, encoded_metadata, resp, codecVars, procVars, auxVars>>

\* except Exception, the event has no topic: event['topic'] raises KeyError
IssuerExceptNoTopic ==
    /\ ipc = "except"
    /\ "topic" \notin DOMAIN event
    /\ ierr' = "KeyError"
    /\ ipc' = "raised"
    /\ UNCHANGED <<event, ifail, encoded_metadata, resp, responses, codecVars, procVars, auxVars>>

\* except Exception: the negative response, then raise unless the exception
\* is a PayloadException
IssuerExceptPublish ==
    /\ ipc = "except"
    /\ "topic" \in DOMAIN event
    /\ \E delivered \in BOOLEAN :
          /\ responses' = Append(responses, [topic |-> IssuerReplyTopic(event),
                                             payload |-> IssuerNegativePayload(event),
                                             delivered |-> delivered])
          /\ ierr' = IF delivered THEN ierr ELSE "ClientError"
          /\ ipc' = IF delivered /\ ierr = "PayloadException"
                    THEN "returned" ELSE "raised"
    /\ UNCHANGED <<event, ifail, encoded_metadata, resp, codecVars, procVars, auxVars>>

NextIssuer ==
    \/ IssuerPayloadBad \/ IssuerPayloadOk
    \/ IssuerMd5Bad \/ IssuerSignFails \/ IssuerSignOk
    \/ IssuerPublishOk \/ IssuerPublishFails
    \/ IssuerExceptNoTopic \/ IssuerExceptPublish

SpecIssuer == InitIssuer /\ [][NextIssuer]_vars

(***************************************************************************)
(* Properties of the Issuer.                                               *)
(***************************************************************************)
IssuerEnded == ipc \in {"returned", "raised"}

\* C8: a request with topic and without md5 gets, on the topic with the
\* request keyword swapped for the response keyword, the response with
\* url "", expiration 0, headers {} and its requestUuid ("" when absent), and
\* no response with a non-empty url.
C8_MissingMd5Rejected ==
    ("topic" \in DOMAIN event /\ "md5" \notin DOMAIN event)
        => /\ \A n \in DOMAIN responses : responses[n].payload.url = <<>>
           /\ IssuerEnded =>
                 /\ Len(responses) = 1
                 /\ responses[1].topic = Replace(event["topic"], REQ_KW, RESP_KW)
                 /\ responses[1].payload =
                        [requestUuid |-> IF "requestUuid" \in DOMAIN event
                                         THEN event["requestUuid"] ELSE <<>>,
                         url |-> <<>>, expiration |-> 0, headers |-> <<>>]

\* the request {topic: "b/Req/c", requestUuid: "u1"} was answered on
\* "b/Resp/c" with the empty url
C8_Witness ==
    /\ event = ("topic" :> TopicBC) @@ ("requestUuid" :> Uuid1)
    /\ IssuerEnded
    /\ Len(responses) = 1
    /\ responses[1].delivered
    /\ responses[1].topic = <<98, 47, 82, 101, 115, 112, 47, 99>>
    /\ responses[1].payload.url = <<>>
    /\ responses[1].payload.requestUuid = Uuid1

\* C11: a complete request with a valid md5 whose signing and publish go
\* through gets exactly one message, on the topic with the request keyword
\* swapped for the response keyword, with its requestUuid, the non-empty
\* presigned url, and as headers exactly content-type, content-md5 (the Base64
\* checksum) and 'x-amz-meta-<encoded key>' = <encoded value> for each entry
\* of the encoded metadata that was signed.
C11_PositiveResponse ==
    (IssuerEnded /\ ifail = "none")
        => /\ ipc = "returned"
           /\ Len(responses) = 1
           /\ LET r == responses[1]
                  signed == r.payload.url[5]
                  hs == r.payload.headers
              IN /\ r.delivered
                 /\ r.topic = Replace(event["topic"], REQ_KW, RESP_KW)
                 /\ r.payload.requestUuid = event["requestUuid"]
                 /\ r.payload.url # <<>>
                 /\ r.payload.url = resp.url
                 /\ signed = EncodeMetadata(
                        (OrgMqttTopicKey :> event["topic"])
                        @@ (RequestUuidKey :> event["requestUuid"]))
                 /\ DOMAIN hs = {ContentTypeHeader, ContentMd5Header}
                                  \cup {XAmzMetaPrefix \o k : k \in DOMAIN signed}
                 /\ hs[ContentTypeHeader] = CONTENT_TYPE
                 /\ hs[ContentMd5Header] = r.payload.url[6]
                 /\ hs[ContentMd5Header] = Md5ToB64md5(event["md5"]).val
                 /\ \A k \in DOMAIN signed : hs[XAmzMetaPrefix \o k] = signed[k]

\* the request {topic: "b/Req/c", requestUuid: "u1", md5: "d41d"} was answered
\* on "b/Resp/c" with a url, content-md5 "1B0=" and four headers
C11_Witness ==
    /\ ipc = "returned"
    /\ event = ("topic" :> TopicBC) @@ ("requestUuid" :> Uuid1)
                   @@ ("md5" :> <<100, 52, 49, 100>>)
    /\ Len(responses) = 1
    /\ responses[1].delivered
    /\ responses[1].topic = <<98, 47, 82, 101, 115, 112, 47, 99>>
    /\ responses[1].payload.url # <<>>
    /\ responses[1].payload.headers[ContentMd5Header] = <<49, 66, 48, 61>>
    /\ Cardinality(DOMAIN responses[1].payload.headers) = 4

\* C9: a request that lacks one of topic, requestUuid, md5 is rejected softly:
\* the handler returns to its caller, no exception propagates.
C9_SoftRejection ==
    (IssuerEnded /\ ~IsPayloadOk(event)) => ipc = "returned"

\* C19: when signing (or the conversion of md5 or the positive publish) fails
\* for a request with a topic, the handler goes through the except block:
\* it issues the publish of the negative response on the reply topic and
\* only with that step does the error leave the handler; the invocation
\* never returns normally, and when the negative publish went through the
\* error that leaves is the original one
C19_SoftFailThenPropagate ==
    [][/\ ifail' \in {"sign", "publish"} => ipc' \in {"except", "raised"}
       /\ (ifail' \in {"sign", "publish"} /\ ipc' = "raised" /\ ipc # "raised")
            => /\ ipc = "except"
               /\ ifail' = ifail
               /\ ierr # "none"
               /\ Len(responses') = Len(responses) + 1
               /\ LET last == responses'[Len(responses')]
                  IN /\ last.topic = Replace(event["topic"], REQ_KW, RESP_KW)
                     /\ last.payload = [requestUuid |-> event["requestUuid"],
                                        url |-> <<>>, expiration |-> 0,
                                        headers |-> <<>>]
                     /\ last.delivered => ierr' = ierr
                     /\ ierr' # "none"
       /\ (ifail \in {"sign", "publish"} /\ ipc = "except") => ipc' = "raised"
      ]_vars

\* the positive publish raised, the negative response was delivered after it
\* and the ClientError of the positive publish left the handler
C19_Witness ==
    /\ ipc = "raised"
    /\ ifail = "publish"
    /\ ierr = "ClientError"
    /\ Len(responses) = 2
    /\ ~responses[1].delivered
    /\ responses[1].payload.url # <<>>
    /\ responses[2].delivered
    /\ responses[2].payload.url = <<>>

CodecAlphabet == {65, 107, 233, 8364}
RECURSIVE StringsUpTo(_)
StringsUpTo(n) ==
    IF n = 0 THEN {<<>>}
    ELSE LET shorter == StringsUpTo(n - 1)
         IN shorter \cup {Append(s, c) : s \in shorter, c \in CodecAlphabet}
CodecValues == StringsUpTo(MaxStrLen)
\* keys: the program's two, the empty string, a key of non-ASCII characters
CodecKeys == {OrgMqttTopicKey, RequestUuidKey, <<>>, <<233, 75, 128512>>}
CodecMappings ==
    UNION {[ks -> CodecValues] : ks \in {d \in SUBSET CodecKeys : Cardinality(d) <= 2}}

InitCodec ==
    /\ cpc = "start"
    /\ cm \in CodecMappings
    /\ cenc = <<>>
    /\ cdec = Raised
    /\ ProcIdle
    /\ IssuerIdle
    /\ AuxIdle

CodecEncode ==
    /\ cpc = "start"
    /\ cenc' = EncodeMetadata(cm)
    /\ cpc' = "encoded"
    /\ UNCHANGED <<cm, cdec, procVars, issuerVars, auxVars>>

CodecStore ==
    /\ cpc = "encoded"
    /\ cenc' = S3StoreMetadata(cenc)
    /\ cpc' = "stored"
    /\ UNCHANGED <<cm, cdec, procVars, issuerVars, auxVars>>

CodecDecode ==
    /\ cpc = "stored"
    /\ cdec' = DecodeMetadata(cenc)
    /\ cpc' = "decoded"
    /\ UNCHANGED <<cm, cenc, procVars, issuerVars, auxVars>>

NextCodec == CodecEncode \/ CodecStore \/ CodecDecode

SpecCodec == InitCodec /\ [][NextCodec]_vars

\* C1: decoding the encoded form of a mapping of UTF-8 strings gives the
\* mapping back: the same keys, and the same value under each key.
C1_RoundTrip ==
    cpc = "decoded" =>
        /\ cdec.ok
        /\ DOMAIN cdec.val = DOMAIN cm
        /\ \A k \in DOMAIN cm : cdec.val[k] = cm[k]

\* a mapping of two entries with multi-byte characters and hex letters has made
\* the round trip
C1_Witness ==
    /\ cpc = "decoded"
    /\ cdec.ok
    /\ Cardinality(DOMAIN cm) = 2
    /\ <<233, 75, 128512>> \in DOMAIN cm
    /\ cm[<<233, 75, 128512>>] = <<8364, 107>>
    /\ cenc # cm

IsLowerHexString(s) == \A i \in 1..Len(s) : (s[i] >= 48 /\ s[i] <= 57) \/ (s[i] >= 97 /\ s[i] <= 102)

\* C13: every key and every value of the mapping encode_metadata returns is
\* made of 0-9 and a-f only, so the lower-casing of the storage backend leaves
\* the encoded mapping as it is.
C13_EncodedAlphabet ==
    cpc = "encoded" =>
        /\ \A k \in DOMAIN cenc : IsLowerHexString(k) /\ IsLowerHexString(cenc[k])
        /\ DOMAIN cenc = {Lower(k) : k \in DOMAIN cenc}
        /\ \A k \in DOMAIN cenc : Lower(cenc[k]) = cenc[k]
        /\ S3StoreMetadata(cenc) = cenc

\* the key e-acute 'K' U+1F600 was encoded to "c3a94bf09f9880" and its value
\* "k" followed by the euro sign to "6be282ac"
C13_Witness ==
    /\ cpc = "encoded"
    /\ <<99, 51, 97, 57, 52, 98, 102, 48, 57, 102, 57, 56, 56, 48>> \in DOMAIN cenc
    /\ cenc[<<99, 51, 97, 57, 52, 98, 102, 48, 57, 102, 57, 56, 56, 48>>]
           = <<54, 98, 101, 50, 56, 50, 97, 99>>

(***************************************************************************)
(* The checksum conversion on its own: the client computes the MD5 of the  *)
(* archive as a hexadecimal digest, the Issuer turns it into the Base64    *)
(* form S3 expects in Content-MD5, and S3 decodes that form.               *)
(***************************************************************************)

\* the number of hexadecimal characters of an MD5 digest
Md5HexLen == 32
\* the number of bytes of an MD5 digest
Md5DigestLen == Md5HexLen \div 2

\* byte values a digest is built from: both ends of the range, both hex
\* letter cases, and values whose Base64 form uses + and /
Md5Bytes == {0, 15, 94, 171, 255}

\* the raw digests: three drawn bytes repeated over the 16 bytes
Md5Digests ==
    {[i \in 1..Md5DigestLen |-> t[((i - 1) % 3) + 1]] :
        t \in [1..3 -> Md5Bytes]}

\* hashlib's hexdigest(): two lower-case hex digits per byte
Hexdigest(raw) == Lower(B16Encode(raw))

\* the value of one character of the Base64 alphabet, -1 for any other
B64Value(c) ==
    IF c >= 65 /\ c <= 90 THEN c - 65
    ELSE IF c >= 97 /\ c <= 122 THEN c - 71
    ELSE IF c >= 48 /\ c <= 57 THEN c + 4
    ELSE IF c = 43 THEN 62
    ELSE IF c = 47 THEN 63 ELSE -1

RECURSIVE B64Decode(_)
\* the decoding S3 applies to Content-MD5: four characters to three bytes,
\* '=' padding only in the last group; Raised on any other input
B64Decode(text) == With(text, LAMBDA s :
    IF s = <<>> THEN Ok(<<>>)
    ELSE IF Len(s) < 4 THEN Raised
    ELSE LET v == [i \in 1..4 |-> B64Value(s[i])]
             last == Len(s) = 4
         IN IF v[1] < 0 \/ v[2] < 0 THEN Raised
            ELSE IF s[3] = 61 /\ s[4] = 61
                 THEN IF last /\ v[2] % 16 = 0
                      THEN Ok(<<v[1] * 4 + (v[2] \div 16)>>)
                      ELSE Raised
            ELSE IF v[3] < 0 THEN Raised
            ELSE IF s[4] = 61
                 THEN IF last /\ v[3] % 4 = 0
                      THEN Ok(<<v[1] * 4 + (v[2] \div 16),
                                (v[2] % 16) * 16 + (v[3] \div 4)>>)
                      ELSE Raised
            ELSE IF v[4] < 0 THEN Raised
            ELSE With(B64Decode(SubSeq(s, 5, Len(s))), LAMBDA rest :
                     IF rest.ok
                     THEN Ok(<<v[1] * 4 + (v[2] \div 16),
                               (v[2] % 16) * 16 + (v[3] \div 4),
                               (v[3] % 4) * 64 + v[4]>> \o rest.val)
                     ELSE Raised))

InitMd5 ==
    /\ md5pc = "start"
    /\ md5raw \in Md5Digests
    /\ md5hex = <<>>
    /\ md5b64 = Raised
    /\ CodecIdle
    /\ ProcIdle
    /\ IssuerIdle
    /\ WalkIdle
    /\ ClientIdle

\* make_request: the digest of the archive in hexadecimal; a device may send
\* the same digest with upper-case letters
Md5Hex ==
    /\ md5pc = "start"
    /\ \E upper \in BOOLEAN :
        md5hex' = IF upper THEN Upper(Hexdigest(md5raw)) ELSE Hexdigest(md5raw)
    /\ md5pc' = "hex"
    /\ UNCHANGED <<md5raw, md5b64, walkVars, clientVars, codecVars, procVars, issuerVars>>

\* get_presigned_url: md5e = md5_to_b64md5(md5)
Md5Convert ==
    /\ md5pc = "hex"
    /\ md5b64' = Md5ToB64md5(md5hex)
    /\ md5pc' = "converted"
    /\ UNCHANGED <<md5raw, md5hex, walkVars, clientVars, codecVars, procVars, issuerVars>>

NextMd5 == Md5Hex \/ Md5Convert

SpecMd5 == InitMd5 /\ [][NextMd5]_vars

\* C15: for every 32-character hexadecimal checksum h, md5_to_b64md5(h)
\* succeeds and its Base64 decoding is exactly the 16 raw bytes h denotes
C15_Md5RoundTrip ==
    md5pc = "converted" =>
        /\ Len(md5hex) = Md5HexLen
        /\ md5b64.ok
        /\ B64Decode(md5b64.val) = Ok(md5raw)
        /\ Len(B64Decode(md5b64.val).val) = Md5DigestLen

\* a checksum with upper-case hex letters whose Base64 form uses '/', converted
C15_Witness ==
    /\ md5pc = "converted"
    /\ md5raw[1] = 255
    /\ md5raw[2] = 171
    /\ md5hex[1] = 70
    /\ md5b64.ok
    /\ \E i \in 1..Len(md5b64.val) : md5b64.val[i] = 47

(***************************************************************************)
(* process_dir on its own, over every archive made of entries of a pool.   *)
(***************************************************************************)

\* "a", "b", "s/", "s/b", "s/t/c", "e/": files at three depths, the same file
\* name at two depths, a directory entry and an empty directory
WalkPool ==
    {<<97>>, <<98>>, <<115, 47>>, <<115, 47, 98>>, <<115, 47, 116, 47, 99>>,
     <<101, 47>>}

WalkArchives == SUBSET WalkPool

\* partition_path is the topic of the request
WalkPartitions == {TopicBC, TopicPlain}

InitWalk ==
    /\ wpc = "start"
    /\ wzip \in WalkArchives
    /\ wpartition \in WalkPartitions
    /\ wuploads = <<>>
    /\ CodecIdle
    /\ ProcIdle
    /\ IssuerIdle
    /\ Md5Idle
    /\ ClientIdle

\* process_dir(tmpdir, "", topic, bucket) after extractall, with os.listdir
\* listing every directory in some order
WalkProcessDir ==
    /\ wpc = "start"
    /\ \E run \in ProcessDir(ExtractAll(wzip), <<>>, wpartition) :
        wuploads' = run
    /\ wpc' = "done"
    /\ UNCHANGED <<wzip, wpartition, md5Vars, clientVars, codecVars, procVars, issuerVars>>

\* the next invocation, on another archive
WalkAgain ==
    /\ wpc = "done"
    /\ wpc' = "start"
    /\ wzip' \in WalkArchives
    /\ wuploads' = <<>>
    /\ UNCHANGED <<wpartition, md5Vars, clientVars, codecVars, procVars, issuerVars>>

NextWalk == WalkProcessDir \/ WalkAgain

SpecWalk == InitWalk /\ [][NextWalk]_vars

\* the regular files of the archive, by path relative to the extraction root
WalkFiles == ExtractAll(wzip).files

\* C20: process_dir from the extraction root uploads each regular file of any
\* depth exactly once to "<partition>/<relative path>", uploads nothing for a
\* directory, and the set of keys is the same for every listing order
C20_RecursiveRedistribution ==
    wpc = "done" =>
        /\ Len(wuploads) = Cardinality(WalkFiles)
        /\ Range(wuploads) = {wpartition \o Slash \o f : f \in WalkFiles}
        /\ \A d \in ExtractAll(wzip).dirs :
               /\ wpartition \o Slash \o d \notin Range(wuploads)
               /\ wpartition \o Slash \o d \o Slash \notin Range(wuploads)
        /\ \A k \in Range(wuploads) : k[Len(wpartition) + 2] # 47
        /\ \A run \in ProcessDir(ExtractAll(wzip), <<>>, wpartition) :
               Range(run) = Range(wuploads)

\* the whole pool walked, the deepest file uploaded before the top-level ones
C20_Witness ==
    /\ wpc = "done"
    /\ wzip = WalkPool
    /\ Len(wuploads) = 4
    /\ wuploads[1] = wpartition \o Slash \o <<115, 47, 116, 47, 99>>
    /\ wuploads[4] = wpartition \o Slash \o <<97>>

(***************************************************************************)
(* The client: test_client.py.  The main thread runs test_client; the      *)
(* callbacks run on the thread of the MQTT connection, one at a time, in   *)
(* the order the messages arrive.                                          *)
(***************************************************************************)

\* TOPIC_BASE, the client id and the time stamp of the request topic, as the
\* stand-ins "b", "c" and "t"
TOPIC_BASE == <<98>>
ClientId == <<99>>
Timestamp == <<116>>

\* the topic of make_request: "b/Req/c/t"
ClientRequestTopic ==
    TOPIC_BASE \o Slash \o REQ_KW \o Slash \o ClientId \o Slash \o Timestamp

\* the subscription "<TOPIC_BASE>/<keyword>/<client id>/#" without its "/#"
SubscriptionPrefix(kw) == TOPIC_BASE \o Slash \o kw \o Slash \o ClientId

\* a topic matches "<prefix>/#": the prefix itself or anything below it
TopicMatches(prefix, topic) ==
    \/ topic = prefix
    \/ /\ Len(topic) > Len(prefix)
       /\ SubSeq(topic, 1, Len(prefix) + 1) = prefix \o Slash

\* the timeout of each wait of wait_for_responses, in seconds
Timeout == 7

\* the files archive_path may name: an archive and a file that is no archive
ClientFiles == {"zipAB", "notZip"}
FileBody(file) == IF file = "zipAB" THEN ZipAB ELSE NotAZip

\* the MD5 digest of a body
Md5(body) ==
    IF body = NotAZip
    THEN [i \in 1..Md5DigestLen |-> <<0, 15, 94>>[((i - 1) % 3) + 1]]
    ELSE [i \in 1..Md5DigestLen |-> <<94, 171, 255>>[((i - 1) % 3) + 1]]

\* the md5 of --bad_md5: "1" 32 times
BadMd5 == [i \in 1..Md5HexLen |-> 49]

ClientArgs ==
    [exists : BOOLEAN, bad_md5 : BOOLEAN, bad_payload : BOOLEAN,
     file : ClientFiles]

\* the payload of make_request
RequestPayload(args, request_uuid) ==
    LET md5 == IF ~args.bad_md5 THEN Hexdigest(Md5(FileBody(args.file)))
               ELSE BadMd5
    IN IF args.bad_payload
       THEN ("requestUuid" :> request_uuid)
       ELSE ("requestUuid" :> request_uuid) @@ ("md5" :> md5)

\* user metadata that keeps the full header names
UserMetadataWithPrefix(headers) ==
    LET n == Len(XAmzMetaPrefix)
        hs == {h \in DOMAIN headers :
                  Len(h) > n /\ SubSeq(h, 1, n) = XAmzMetaPrefix}
    IN [h \in hs |-> headers[h]]

\* the user metadata of a PUT: its x-amz-meta- headers without the prefix
UserMetadata(headers) ==
    LET n == Len(XAmzMetaPrefix)
        hs == {h \in DOMAIN headers :
                  Len(h) > n /\ SubSeq(h, 1, n) = XAmzMetaPrefix}
    IN [k \in {SubSeq(h, n + 1, Len(h)) : h \in hs} |-> headers[XAmzMetaPrefix \o k]]

\* S3 takes a PUT on a presigned URL when the request has the signed headers
\* with the signed values and the body has the signed Content-MD5
S3Accepts(url, headers, body) ==
    /\ DOMAIN headers = DOMAIN MakeHeaders(url[5], url[4], url[6])
    /\ \A h \in DOMAIN headers : headers[h] = MakeHeaders(url[5], url[4], url[6])[h]
    /\ B64Decode(url[6]) = Ok(Md5(body))

mainVars == <<mpc, connected, subs, published, ret, elapsed>>
recvVars == <<received_response, received_ack, success, ack_log>>
cbVars == <<inbox, cbpc, cbmsg, puts, uploaded>>
brokerVars == <<fwd, ndeliv>>
serviceVars == <<md5Vars, walkVars, codecVars, issuerVars>>
handlerVars == <<store, records, ri, ppc, mdata, perr, tmpdir, acks, hist>>

\* test_client is about to call initialise
ClientStart ==
    /\ mpc = "connect"
    /\ connected = FALSE
    /\ subs = {}
    /\ published = <<>>
    /\ received_response = FALSE
    /\ received_ack = FALSE
    /\ success = "False"
    /\ ack_log = <<>>
    /\ ret = "unset"
    /\ elapsed = 0
    /\ inbox = <<>>
    /\ cbpc = "idle"
    /\ cbmsg = NoMessage
    /\ puts = <<>>
    /\ uploaded = [k \in FreshKeys |-> NoObject]
    /\ fwd = [resp |-> 0, ack |-> 0]
    /\ ndeliv = 0
    /\ staging = [k \in FreshKeys |-> "absent"]
    /\ ProcHandlerIdle
    /\ IssuerIdle
    /\ CodecIdle
    /\ Md5Idle
    /\ WalkIdle

\* initialise: connect_future.result()
ClientConnect ==
    /\ mpc = "connect"
    /\ connected' = TRUE
    /\ mpc' = "sub_resp"
    /\ UNCHANGED <<cargs, subs, published, ret, elapsed, recvVars, cbVars,
                   brokerVars, serviceVars, procVars>>

\* connect_future.result() raises
ClientConnectFails ==
    /\ mpc = "connect"
    /\ mpc' = "raised"
    /\ UNCHANGED <<cargs, connected, subs, published, ret, elapsed, recvVars,
                   cbVars, brokerVars, serviceVars, procVars>>

\* initialise: the subscription to the response topics is confirmed
ClientSubscribeResp ==
    /\ mpc = "sub_resp"
    /\ subs' = subs \cup {"resp"}
    /\ mpc' = "sub_ack"
    /\ UNCHANGED <<cargs, connected, published, ret, elapsed, recvVars, cbVars,
                   brokerVars, serviceVars, procVars>>

\* initialise going on without the confirmation of the second subscription
ClientSubscribeAckUnconfirmed ==
    /\ mpc = "sub_ack"
    /\ mpc' = "request"
    /\ UNCHANGED <<cargs, connected, subs, published, ret, elapsed, recvVars,
                   cbVars, brokerVars, serviceVars, procVars>>

\* initialise: the subscription to the acknowledgement topics is confirmed
ClientSubscribeAck ==
    /\ mpc = "sub_ack"
    /\ subs' = subs \cup {"ack"}
    /\ mpc' = "request"
    /\ UNCHANGED <<cargs, connected, published, ret, elapsed, recvVars, cbVars,
                   brokerVars, serviceVars, procVars>>

\* subscribe_future.result() raises
ClientSubscribeFails ==
    /\ mpc \in {"sub_resp", "sub_ack"}
    /\ mpc' = "raised"
    /\ UNCHANGED <<cargs, connected, subs, published, ret, elapsed, recvVars,
                   cbVars, brokerVars, serviceVars, procVars>>

\* make_request: the file does not exist, nothing is published
ClientRequestNoFile ==
    /\ mpc = "request"
    /\ ~cargs.exists
    /\ mpc' = "wait_response"
    /\ UNCHANGED <<cargs, connected, subs, published, ret, elapsed, recvVars,
                   cbVars, brokerVars, serviceVars, procVars>>

\* make_request: the request with a fresh requestUuid is published
ClientMakeRequest ==
    /\ mpc = "request"
    /\ cargs.exists
    /\ \E request_uuid \in {Uuid1, Uuid2} :
          published' = <<[topic |-> ClientRequestTopic,
                          payload |-> RequestPayload(cargs, request_uuid)]>>
    /\ mpc' = "wait_response"
    /\ UNCHANGED <<cargs, connected, subs, ret, elapsed, recvVars, cbVars,
                   brokerVars, serviceVars, procVars>>

\* make_request: publish_future.result() raises
ClientRequestFails ==
    /\ mpc = "request"
    /\ cargs.exists
    /\ mpc' = "raised"
    /\ UNCHANGED <<cargs, connected, subs, published, ret, elapsed, recvVars,
                   cbVars, brokerVars, serviceVars, procVars>>

\* received_response.wait returns because the event is set: at once, or at
\* the latest when the timeout is reached
ClientWaitResponseSet ==
    /\ mpc = "wait_response"
    /\ received_response
    /\ \E d \in {0, Timeout} : elapsed' = elapsed + d
    /\ mpc' = "wait_ack"
    /\ UNCHANGED <<cargs, connected, subs, published, ret, recvVars, cbVars,
                   brokerVars, serviceVars, procVars>>

\* received_response.wait returns because the timeout is reached
ClientWaitResponseTimeout ==
    /\ mpc = "wait_response"
    /\ ~received_response
    /\ elapsed' = elapsed + Timeout
    /\ mpc' = "wait_ack"
    /\ UNCHANGED <<cargs, connected, subs, published, ret, recvVars, cbVars,
                   brokerVars, serviceVars, procVars>>

ClientWaitResponse == ClientWaitResponseSet \/ ClientWaitResponseTimeout

ClientWaitAckSet ==
    /\ mpc = "wait_ack"
    /\ received_ack
    /\ \E d \in {0, Timeout} : elapsed' = elapsed + d
    /\ mpc' = "disconnect"
    /\ UNCHANGED <<cargs, connected, subs, published, ret, recvVars, cbVars,
                   brokerVars, serviceVars, procVars>>

\* a wait that never gives up
ClientWaitAckForever ==
    /\ mpc = "wait_ack"
    /\ ~received_ack
    /\ UNCHANGED vars

\* received_ack.wait returns because the timeout is reached
ClientWaitAckTimeout ==
    /\ mpc = "wait_ack"
    /\ ~received_ack
    /\ elapsed' = elapsed + Timeout
    /\ mpc' = "disconnect"
    /\ UNCHANGED <<cargs, connected, subs, published, ret, recvVars, cbVars,
                   brokerVars, serviceVars, procVars>>

ClientWaitAck == ClientWaitAckSet \/ ClientWaitAckTimeout

\* disconnect, and test_client returns receiver.success
ClientDisconnect ==
    /\ mpc = "disconnect"
    /\ connected' = FALSE
    /\ subs' = {}
    /\ inbox' = <<>>
    /\ ret' = success
    /\ mpc' = "returned"
    /\ UNCHANGED <<cargs, published, elapsed, recvVars, cbpc, cbmsg, puts,
                   uploaded, brokerVars, serviceVars, procVars>>

\* the connection's thread is free to run the callback of the next message
CallbackReady == connected /\ cbpc = "idle" /\ inbox # <<>>

\* on_response_received: the url is empty, the request was rejected
OnResponseRejected ==
    /\ CallbackReady
    /\ Head(inbox).kind = "resp"
    /\ Head(inbox).json
    /\ Head(inbox).payload.url = <<>>
    /\ received_response' = TRUE
    /\ inbox' = Tail(inbox)
    /\ UNCHANGED <<cargs, mainVars, received_ack, success, ack_log, cbpc, cbmsg,
                   puts, uploaded, brokerVars, serviceVars, procVars>>

\* on_response_received: the url is not empty, requests.put is called
OnResponsePutStart ==
    /\ CallbackReady
    /\ Head(inbox).kind = "resp"
    /\ Head(inbox).json
    /\ Head(inbox).payload.url # <<>>
    /\ cargs.exists
    /\ cbpc' = "put"
    /\ cbmsg' = Head(inbox)
    /\ inbox' = Tail(inbox)
    /\ UNCHANGED <<cargs, mainVars, recvVars, puts, uploaded, brokerVars,
                   serviceVars, procVars>>

\* requests.put returns: S3 stored the object or refused it; the event is set
OnResponsePutDone ==
    /\ cbpc = "put"
    /\ LET url == cbmsg.payload.url
           headers == cbmsg.payload.headers
           body == FileBody(cargs.file)
       IN /\ puts' = Append(puts, [url |-> url, headers |-> headers, body |-> body,
                                    result |-> IF S3Accepts(url, headers, body)
                                               THEN "stored" ELSE "refused"])
          /\ IF S3Accepts(url, headers, body)
             THEN /\ staging' = [staging EXCEPT ![url[3]] = url[3]]
                  /\ uploaded' = [uploaded EXCEPT ![url[3]] =
                                     [meta |-> S3StoreMetadata(UserMetadata(headers)),
                                      body |-> body]]
             ELSE UNCHANGED <<staging, uploaded>>
    /\ received_response' = TRUE
    /\ cbpc' = "idle"
    /\ cbmsg' = NoMessage
    /\ UNCHANGED <<cargs, mainVars, received_ack, success, ack_log, inbox,
                   brokerVars, serviceVars, handlerVars>>

\* requests.put raises (no answer within its timeout, no connection): the
\* callback ends without setting the event
OnResponsePutRaises ==
    /\ cbpc = "put"
    /\ puts' = Append(puts, [url |-> cbmsg.payload.url,
                             headers |-> cbmsg.payload.headers,
                             body |-> FileBody(cargs.file), result |-> "raised"])
    /\ cbpc' = "idle"
    /\ cbmsg' = NoMessage
    /\ UNCHANGED <<cargs, mainVars, recvVars, inbox, uploaded, brokerVars,
                   serviceVars, procVars>>

\* on_ack_received
OnAckReceived ==
    /\ CallbackReady
    /\ Head(inbox).kind = "ack"
    /\ Head(inbox).json
    /\ success' = IF Head(inbox).payload.success = "True" THEN "True"
                  ELSE IF Head(inbox).payload.success = "False" THEN success
                  ELSE "None"
    /\ ack_log' = Append(ack_log, Head(inbox).payload.success)
    /\ received_ack' = TRUE
    /\ inbox' = Tail(inbox)
    /\ UNCHANGED <<cargs, mainVars, received_response, cbpc, cbmsg, puts,
                   uploaded, brokerVars, serviceVars, procVars>>

\* a callback raises before it sets its event: json.loads on a payload that
\* is no JSON, or open() on a file that does not exist
OnCallbackRaises ==
    /\ CallbackReady
    /\ \/ ~Head(inbox).json
       \/ /\ Head(inbox).kind = "resp"
          /\ Head(inbox).json
          /\ Head(inbox).payload.url # <<>>
          /\ ~cargs.exists
    /\ inbox' = Tail(inbox)
    /\ UNCHANGED <<cargs, mainVars, recvVars, cbpc, cbmsg, puts, uploaded,
                   brokerVars, serviceVars, procVars>>

(***************************************************************************)
(* The client against any broker: messages of any content may arrive on    *)
(* the topics it subscribed to, or none.                                   *)
(***************************************************************************)

\* the number of messages that arrive during one run
MaxMsgs == 2

\* a response with the signed URL of the archive, as the Issuer builds it
EnvGoodResponse ==
    LET md == EncodeMetadata((OrgMqttTopicKey :> ClientRequestTopic)
                             @@ (RequestUuidKey :> Uuid1))
        md5e == B64Encode(Md5(ZipAB))
    IN [requestUuid |-> Uuid1,
        url |-> PresignedUrl("o1", md, CONTENT_TYPE, md5e),
        expiration |-> (1000 + Expire) * 1000,
        headers |-> MakeHeaders(md, CONTENT_TYPE, md5e)]

\* messages for the client: a response with a URL, a rejection, the three
\* kinds of acknowledgement, and payloads that are no JSON
EnvMessages ==
    {[kind |-> "resp", json |-> TRUE,
      topic |-> Replace(ClientRequestTopic, REQ_KW, RESP_KW),
      payload |-> p] :
        p \in {EnvGoodResponse,
               [requestUuid |-> Uuid1, url |-> <<>>, expiration |-> 0,
                headers |-> <<>>]}}
    \cup
    {[kind |-> "ack", json |-> TRUE,
      topic |-> Replace(ClientRequestTopic, REQ_KW, ACK_KW),
      payload |-> [success |-> s, requestUuid |-> Uuid1]] :
        s \in {"True", "False", "None"}}
    \cup
    {[kind |-> k, json |-> FALSE,
      topic |-> SubscriptionPrefix(IF k = "resp" THEN RESP_KW ELSE ACK_KW),
      payload |-> <<>>] :
        k \in {"resp", "ack"}}

\* the broker hands a message of a subscribed topic to the connection
EnvDeliver ==
    /\ connected
    /\ ndeliv < MaxMsgs
    /\ \E m \in EnvMessages :
          /\ m.kind \in subs
          /\ TopicMatches(SubscriptionPrefix(IF m.kind = "resp" THEN RESP_KW
                                             ELSE ACK_KW), m.topic)
          /\ inbox' = Append(inbox, m)
    /\ ndeliv' = ndeliv + 1
    /\ UNCHANGED <<cargs, mainVars, recvVars, cbpc, cbmsg, puts, uploaded, fwd,
                   serviceVars, procVars>>

InitClient ==
    /\ cargs \in {a \in ClientArgs : a.file = "zipAB"}
    /\ ClientStart

NextClient ==
    \/ ClientConnect \/ ClientConnectFails
    \/ ClientSubscribeResp \/ ClientSubscribeAck \/ ClientSubscribeFails
    \/ ClientRequestNoFile \/ ClientMakeRequest \/ ClientRequestFails
    \/ ClientWaitResponse \/ ClientWaitAck
    \/ ClientDisconnect
    \/ OnResponseRejected \/ OnResponsePutStart
    \/ OnResponsePutDone \/ OnResponsePutRaises
    \/ OnAckReceived \/ OnCallbackRaises
    \/ EnvDeliver

SpecClient == InitClient /\ [][NextClient]_vars

\* the main thread runs, and each wait returns when its event is set or its
\* timeout is reached
FairSpecClient ==
    /\ SpecClient
    /\ WF_vars(ClientWaitResponse)
    /\ WF_vars(ClientWaitAck)
    /\ WF_vars(ClientDisconnect)

\* C14: once make_request is over, the main thread gets through both waits,
\* each within its timeout, disconnects and returns, whatever arrives or does
\* not arrive; the two waits take at most twice the timeout together
C14_BoundedWait ==
    /\ [](elapsed <= 2 * Timeout)
    /\ [][(mpc \in {"wait_response", "wait_ack"} /\ mpc' # mpc)
             => elapsed' - elapsed <= Timeout]_vars
    /\ (mpc \in {"wait_response", "wait_ack"})
           ~> (mpc = "returned" /\ ~connected /\ ret # "unset")

\* the request was published, no message ever arrived, and test_client has
\* returned after both timeouts
C14_Witness ==
    /\ mpc = "returned"
    /\ published # <<>>
    /\ ndeliv = 0
    /\ ~received_response
    /\ ~received_ack
    /\ elapsed = 2 * Timeout
    /\ ret = "False"

\* C17: the connection's thread is never inside a blocking operation: no
\* callback performs an HTTP transfer, each only records the outcome and sets
\* its event
C17_CallbacksOnlySignal == cbpc = "idle" /\ puts = <<>>

(***************************************************************************)
(* The whole exchange without faults: the client, the IoT rule that        *)
(* invokes the Issuer with the request and its topic, the broker, the      *)
(* staging bucket with its upload trigger, and the Processor.  No call to  *)
(* the storage or messaging service raises, and a wait of the client times *)
(* out only when nothing is in progress any more.                          *)
(***************************************************************************)

\* the IoT rule: the Issuer is invoked with the payload and the topic
RuleInvokeIssuer ==
    /\ published # <<>>
    /\ ipc = "idle"
    /\ event' = published[1].payload @@ ("topic" :> published[1].topic)
    /\ ipc' = "start"
    /\ UNCHANGED <<ierr, ifail, encoded_metadata, resp, responses, codecVars,
                   procVars, auxVars>>

\* the broker routes the next message the Issuer published
BrokerRouteResponse ==
    /\ fwd.resp < Len(responses)
    /\ LET m == responses[fwd.resp + 1]
       IN inbox' = IF /\ m.delivered
                      /\ connected
                      /\ "resp" \in subs
                      /\ TopicMatches(SubscriptionPrefix(RESP_KW), m.topic)
                   THEN Append(inbox, [kind |-> "resp", json |-> TRUE,
                                       topic |-> m.topic, payload |-> m.payload])
                   ELSE inbox
    /\ fwd' = [fwd EXCEPT !.resp = @ + 1]
    /\ UNCHANGED <<cargs, mainVars, recvVars, cbpc, cbmsg, puts, uploaded, ndeliv,
                   serviceVars, procVars>>

\* the broker routes the next message the Processor published
BrokerRouteAck ==
    /\ fwd.ack < Len(acks)
    /\ LET m == acks[fwd.ack + 1]
       IN inbox' = IF /\ m.delivered
                      /\ connected
                      /\ "ack" \in subs
                      /\ TopicMatches(SubscriptionPrefix(ACK_KW), m.topic)
                   THEN Append(inbox,
                            [kind |-> "ack", json |-> TRUE, topic |-> m.topic,
                             payload |-> [success |-> IF m.success THEN "True"
                                                      ELSE "False",
                                          requestUuid |-> m.requestUuid]])
                   ELSE inbox
    /\ fwd' = [fwd EXCEPT !.ack = @ + 1]
    /\ UNCHANGED <<cargs, mainVars, recvVars, cbpc, cbmsg, puts, uploaded, ndeliv,
                   serviceVars, procVars>>

\* the upload trigger: the Processor is invoked with the key of the new object
S3Trigger ==
    /\ ppc = "idle"
    /\ \E k \in FreshKeys :
          /\ staging[k] # "absent"
          /\ records' = <<k>>
    /\ ppc' = "loop"
    /\ UNCHANGED <<staging, store, ri, mdata, perr, tmpdir, acks, hist, codecVars,
                   issuerVars, auxVars>>

\* nothing is in progress between the client's request and its replies
E2EQuiet ==
    /\ published = <<>> \/ ipc \in {"returned", "raised"}
    /\ fwd.resp = Len(responses)
    /\ fwd.ack = Len(acks)
    /\ inbox = <<>>
    /\ cbpc = "idle"
    /\ \/ ppc \in {"returned", "raised"}
       \/ ppc = "idle" /\ \A k \in FreshKeys : staging[k] = "absent"

E2EWaitResponseTimeout == E2EQuiet /\ ClientWaitResponseTimeout
E2EWaitAckTimeout == E2EQuiet /\ ClientWaitAckTimeout

\* the publish of the except block goes through
E2EIssuerExceptPublish ==
    IssuerExceptPublish /\ responses'[Len(responses')].delivered
E2EProcExceptPublish ==
    ProcExceptPublish /\ acks'[Len(acks')].delivered

E2EClient ==
    \/ ClientConnect \/ ClientSubscribeResp \/ ClientSubscribeAck
    \/ ClientRequestNoFile \/ ClientMakeRequest
    \/ ClientWaitResponseSet \/ E2EWaitResponseTimeout
    \/ ClientWaitAckSet \/ E2EWaitAckTimeout
    \/ ClientDisconnect

E2ECallbacks ==
    \/ OnResponseRejected \/ OnResponsePutStart \/ OnResponsePutDone
    \/ OnAckReceived

E2EInfrastructure ==
    \/ RuleInvokeIssuer \/ BrokerRouteResponse \/ BrokerRouteAck \/ S3Trigger

E2EIssuer ==
    \/ IssuerPayloadBad \/ IssuerPayloadOk \/ IssuerSignOk \/ IssuerPublishOk
    \/ E2EIssuerExceptPublish

E2EProcessor ==
    \/ ProcLoopNext \/ ProcLoopEnd \/ ProcHeadOk \/ ProcCheckOk
    \/ ProcDownloadOk \/ ProcExtractFails \/ ProcExtractOk
    \/ ProcProcessDirOk \/ ProcPublishOk \/ ProcDeleteOk
    \/ E2EProcExceptPublish

InitE2E ==
    /\ cargs \in ClientArgs
    /\ ClientStart

NextE2E ==
    E2EClient \/ E2ECallbacks \/ E2EInfrastructure \/ E2EIssuer \/ E2EProcessor

\* every party runs: the client's threads, the rule, the broker and the
\* trigger, and the two handlers once invoked
SpecE2E ==
    /\ InitE2E
    /\ [][NextE2E]_vars
    /\ WF_vars(E2EClient)
    /\ WF_vars(E2ECallbacks)
    /\ WF_vars(E2EInfrastructure)
    /\ WF_vars(E2EIssuer)
    /\ WF_vars(E2EProcessor)

\* the client has published the request for an archive that exists, with its
\* true checksum
E2ERequest ==
    /\ published # <<>>
    /\ cargs.file = "zipAB"
    /\ ~cargs.bad_md5
    /\ ~cargs.bad_payload

\* the Issuer's response with a URL is out on the response topic
E2EResponded ==
    \E n \in DOMAIN responses :
        /\ responses[n].delivered
        /\ responses[n].topic = Replace(published[1].topic, REQ_KW, RESP_KW)
        /\ responses[n].payload.url # <<>>
        /\ responses[n].payload.requestUuid = published[1].payload["requestUuid"]

\* the client's PUT was stored
E2EUploaded == \E n \in DOMAIN puts : puts[n].result = "stored"

\* the Processor was invoked for the uploaded object
E2ETriggered == records # <<>> /\ records[1] \in FreshKeys

\* the success acknowledgement of the request is out on the acknowledgement
\* topic
E2EAcked ==
    \E n \in DOMAIN acks :
        /\ acks[n].delivered
        /\ acks[n].success
        /\ acks[n].topic = Replace(published[1].topic, REQ_KW, ACK_KW)
        /\ acks[n].requestUuid = published[1].payload["requestUuid"]

C21_SubscribeBeforeRequest ==
    [][/\ published' # published
            => /\ connected
               /\ subs = {"resp", "ack"}
               /\ responses = <<>>
               /\ acks = <<>>
       /\ (Len(responses') > Len(responses) \/ Len(acks') > Len(acks))
            => published # <<>>
       /\ (fwd'.resp > fwd.resp /\ responses[fwd'.resp].delivered)
            => /\ "resp" \in subs
               /\ inbox' = Append(inbox, [kind |-> "resp", json |-> TRUE,
                                          topic |-> responses[fwd'.resp].topic,
                                          payload |-> responses[fwd'.resp].payload])
       /\ (fwd'.ack > fwd.ack /\ acks[fwd'.ack].delivered)
            => /\ "ack" \in subs
               /\ Len(inbox') = Len(inbox) + 1
               /\ inbox'[Len(inbox')].kind = "ack"
      ]_vars

\* the request went out with both subscriptions in place, and the Issuer's
\* response and the Processor's acknowledgement both reached the callbacks
C21_Witness ==
    /\ published # <<>>
    /\ subs = {"resp", "ack"}
    /\ fwd.resp = 1
    /\ fwd.ack = 1
    /\ received_response
    /\ received_ack

\* the publish calls of the invocation that returned without raising
IssuerPublished == {n \in DOMAIN responses : responses[n].delivered}

\* C22: an invocation of the Issuer makes at most two publish calls, at most
\* one of them returns without raising, a second call is made only after the
\* first one raised, and the responses it delivers never include both one
\* with a url and one with an empty url
C22_AtMostOneResponse ==
    /\ Len(responses) <= 2
    /\ Cardinality(IssuerPublished) <= 1
    /\ Len(responses) = 2 => ~responses[1].delivered
    /\ \A m, n \in IssuerPublished :
          (responses[m].payload.url = <<>>) <=> (responses[n].payload.url = <<>>)
    /\ \A n \in IssuerPublished :
          responses[n].payload.url # <<>> => (n = 1 /\ ipc = "returned")

\* two publish calls were made, the positive one raised and only the
\* negative one went through
C22_Witness ==
    /\ IssuerEnded
    /\ Len(responses) = 2
    /\ IssuerPublished = {2}
    /\ responses[1].payload.url # <<>>
    /\ responses[2].payload.url = <<>>

\* C23: the value test_client returned is "True" only when an acknowledgement
\* with success true was handled, it is "False" when every acknowledgement
\* handled carried success false and when none was handled, and it is not
\* "True" once an acknowledgement with success false was handled
C23_ResultReflectsAck ==
    mpc = "returned" =>
        /\ ret = "True" => "True" \in Range(ack_log)
        /\ (\A n \in DOMAIN ack_log : ack_log[n] = "False") => ret = "False"
        /\ "False" \in Range(ack_log) => ret # "True"

\* the message at the head of the connection's queue answers the request
\* make_request published
AnswersOwnRequest ==
    /\ published # <<>>
    /\ Head(inbox).json
    /\ Head(inbox).payload.requestUuid = published[1].payload["requestUuid"]

\* C24: the client starts an upload and changes the result it reports only
\* while handling a message whose requestUuid is the one of its own request
C24_RepliesCorrelated ==
    [][/\ (cbpc = "idle" /\ cbpc' = "put") => AnswersOwnRequest
       /\ success' # success => AnswersOwnRequest
      ]_vars

====
